---- MODULE Spec2Model ----
(***************************************************************************)
(* Model of vcap/loading/capsule_loading.py: load_capsule_from_bytes and   *)
(* _validate_capsule.  A load is a sequence of steps on one capsule; the   *)
(* only state shared between loads is the import resolver list             *)
(* sys.meta_path.                                                          *)
(***************************************************************************)
EXTENDS Integers, Sequences, FiniteSets, TLC

(* ---------------------------------------------------------------- bounds *)
NumLoads == 2
MaxVerLen == 4
MaxNameLen == 2
MaxDefects == 1
MaxHostFinders == 2

(* ------------------------------------------------------------- constants *)
MAJOR_COMPATIBLE_VERSION == 0
MINOR_COMPATIBLE_VERSION == 2

CAPSULE_FILE_NAME == "capsule.py"
META_FILE_NAME == "meta.conf"
AuxFileName == "model.pb"

Loads == 1..NumLoads

(* ------------------------------------------------- version string parsing *)
Digits == {"0", "1", "2", "3", "4", "5", "6", "7", "8", "9"}

VersionChars == {"0", "2", "3", ".", "a"}

VersionStrings == UNION {[1..n -> VersionChars] : n \in 0..MaxVerLen}

DigitVal(c) ==
    CASE c = "0" -> 0 [] c = "1" -> 1 [] c = "2" -> 2 [] c = "3" -> 3
      [] c = "4" -> 4 [] c = "5" -> 5 [] c = "6" -> 6 [] c = "7" -> 7
      [] c = "8" -> 8 [] c = "9" -> 9

(* int(): base-10 value of a run of digit characters *)
RECURSIVE ToInt(_)
ToInt(s) ==
    IF s = <<>> THEN 0
    ELSE 10 * ToInt(SubSeq(s, 1, Len(s) - 1)) + DigitVal(s[Len(s)])

(* [0-9]+ : the position after the longest run of digits starting at i *)
RECURSIVE DigitRunEnd(_, _)
DigitRunEnd(s, i) ==
    IF i <= Len(s) /\ s[i] \in Digits THEN DigitRunEnd(s, i + 1) ELSE i

NoMatch == [ok |-> FALSE, g1 |-> <<>>, g2 |-> <<>>]

(* ([0-9]+)\.([0-9]+) matched at the start of s; end is the position after
   the match.  The digit runs cannot contain '.', so the greedy match is the
   only one that can reach the '.', and only the full second run can reach
   the end of the string. *)
PatternMatch(s) ==
    LET e1 == DigitRunEnd(s, 1)
        e2 == DigitRunEnd(s, e1 + 1)
    IN  IF e1 > 1 /\ e1 <= Len(s) /\ s[e1] = "." /\ e2 > e1 + 1
        THEN [ok |-> TRUE, g1 |-> SubSeq(s, 1, e1 - 1),
              g2 |-> SubSeq(s, e1 + 1, e2 - 1), end |-> e2]
        ELSE [ok |-> FALSE, g1 |-> <<>>, g2 |-> <<>>, end |-> 1]

(* re.match instead of re.fullmatch: trailing characters are ignored *)
PrefixMatch(s) ==
    LET m == PatternMatch(s)
    IN  IF m.ok THEN [ok |-> TRUE, g1 |-> m.g1, g2 |-> m.g2] ELSE NoMatch

(* MAJOR_MINOR_SEMVER_PATTERN.fullmatch(compatibility_version) *)
MAJOR_MINOR_SEMVER_PATTERN(s) ==
    LET m == PatternMatch(s)
    IN  IF m.ok /\ m.end = Len(s) + 1
        THEN [ok |-> TRUE, g1 |-> m.g1, g2 |-> m.g2]
        ELSE NoMatch

(* the gate without the major check *)
MinorOnlyGate(major, minor) ==
    IF minor > MINOR_COMPATIBLE_VERSION THEN "IncompatibleCapsuleError"
    ELSE "accept"

(* the gate with the minor comparison reversed to >= *)
StrictMinorGate(major, minor) ==
    IF major # MAJOR_COMPATIBLE_VERSION THEN "IncompatibleCapsuleError"
    ELSE IF minor >= MINOR_COMPATIBLE_VERSION THEN "IncompatibleCapsuleError"
    ELSE "accept"

(* the two version comparisons of load_capsule_from_bytes *)
VersionGate(major, minor) ==
    IF major # MAJOR_COMPATIBLE_VERSION THEN "IncompatibleCapsuleError"
    ELSE IF minor > MINOR_COMPATIBLE_VERSION THEN "IncompatibleCapsuleError"
    ELSE "accept"

(* ------------------------------------------------------ capsule objects *)
(* An attribute of a capsule object is a record whose kind says what the    *)
(* attribute is; kind "missing" is an attribute the object does not have.   *)
Attr(k) == [kind |-> k]

AsciiWord ==
    {"a", "b", "c", "d", "e", "f", "g", "h", "i", "j", "k", "l", "m", "n",
     "o", "p", "q", "r", "s", "t", "u", "v", "w", "x", "y", "z",
     "A", "B", "C", "D", "E", "F", "G", "H", "I", "J", "K", "L", "M", "N",
     "O", "P", "Q", "R", "S", "T", "U", "V", "W", "X", "Y", "Z",
     "0", "1", "2", "3", "4", "5", "6", "7", "8", "9", "_"}

(* \w without re.ASCII also matches letters outside ASCII; "U+00E9" stands
   for the one-character string e-acute *)
UnicodeWord == AsciiWord \cup {"U+00E9"}

NameChars == {"a", "_", "-", "U+00E9"}

Names == UNION {[1..n -> NameChars] : n \in 0..MaxNameLen}

RECURSIVE WordRunEnd(_, _, _)
WordRunEnd(s, i, word) ==
    IF i <= Len(s) /\ s[i] \in word THEN WordRunEnd(s, i + 1, word) ELSE i

(* re.fullmatch(r"\w+", name) without flags=re.ASCII *)
UnicodeNameMatch(s) == Len(s) >= 1 /\ WordRunEnd(s, 1, UnicodeWord) = Len(s) + 1

(* re.fullmatch(r"\w+", capsule.name, flags=re.ASCII) is not None *)
NameMatch(s) == Len(s) >= 1 /\ WordRunEnd(s, 1, AsciiWord) = Len(s) + 1

(* classes a capsule may name as its stream_state, with their __bases__ *)
Classes == {"object", "BaseStreamState", "DirectState", "IndirectState",
            "UnrelatedState"}

Bases(c) ==
    CASE c = "object" -> {}
      [] c = "BaseStreamState" -> {"object"}
      [] c = "DirectState" -> {"BaseStreamState"}
      [] c = "IndirectState" -> {"DirectState"}
      [] c = "UnrelatedState" -> {"object"}

GoodBackend ==
    [batch_predict |-> Attr("callable"), process_frame |-> Attr("callable"),
     close |-> Attr("callable"), is_base_backend |-> TRUE]

BackendMethods == {"batch_predict", "process_frame", "close"}

Backends ==
    {GoodBackend, [GoodBackend EXCEPT !.is_base_backend = FALSE]}
    \cup {[GoodBackend EXCEPT ![m] = Attr(k)] :
              m \in BackendMethods, k \in {"other", "missing"}}

ArgLists ==
    {<<"capsule_files", "device">>, <<"self", "capsule_files", "device">>,
     <<"device", "capsule_files">>, <<"capsule_files">>,
     <<"capsule_files", "device", "extra">>, <<>>}

CapsuleFields ==
    {"name", "backend_loader", "version", "input_type", "output_type",
     "options", "backend_config", "backends", "stream_state", "capability"}

(* the values each attribute of a capsule object ranges over *)
AttrValues(f) ==
    CASE f = "name" ->
            {Attr("missing"), Attr("other")}
            \cup {[kind |-> "str", chars |-> n] : n \in Names}
      [] f = "backend_loader" ->
            {Attr("missing"), Attr("other"), Attr("callable")}
            \cup {[kind |-> "function", args |-> a] : a \in ArgLists}
      [] f = "version" -> {Attr("missing"), Attr("other"), Attr("int")}
      [] f \in {"input_type", "output_type"} ->
            {Attr("missing"), Attr("other"), Attr("NodeDescription")}
      [] f = "options" ->
            {Attr("missing"), Attr("other")}
            \cup {[kind |-> "dict", keys |-> k] :
                      k \in {{}, {"recognition_threshold"}}}
      [] f = "backend_config" -> {Attr("missing"), Attr("other")}
      [] f = "backends" ->
            {Attr("missing"), Attr("other"), Attr("None")}
            \cup {[kind |-> "list", items |-> <<>>]}
            \cup {[kind |-> "list", items |-> <<b>>] : b \in Backends}
      [] f = "stream_state" ->
            {Attr("missing"), Attr("instance")}
            \cup {[kind |-> "class", cls |-> c] : c \in Classes}
      [] f = "capability" ->
            {Attr("missing"), Attr("other")}
            \cup {[kind |-> "Capability", encoded |-> e] : e \in BOOLEAN}

(* a capsule that passes validation, and an encoder that does *)
GoodCapsule ==
    [name |-> [kind |-> "str", chars |-> <<"a">>],
     backend_loader |->
         [kind |-> "function", args |-> <<"capsule_files", "device">>],
     version |-> Attr("int"),
     input_type |-> Attr("NodeDescription"),
     output_type |-> Attr("NodeDescription"),
     options |-> [kind |-> "dict", keys |-> {}],
     backend_config |-> Attr("missing"),
     backends |-> [kind |-> "list", items |-> <<GoodBackend>>],
     stream_state |-> [kind |-> "class", cls |-> "BaseStreamState"],
     capability |-> [kind |-> "Capability", encoded |-> FALSE]]

EncoderCapsule ==
    [GoodCapsule EXCEPT
        !.options = [kind |-> "dict", keys |-> {"recognition_threshold"}],
        !.capability = [kind |-> "Capability", encoded |-> TRUE]]

(* the capsule objects of the model: those that differ from one of the two
   reference capsules in at most MaxDefects attributes *)
RECURSIVE Deviants(_)
Deviants(n) ==
    IF n = 0 THEN {GoodCapsule, EncoderCapsule}
    ELSE LET prev == Deviants(n - 1)
         IN  prev \cup UNION {{[c EXCEPT ![f] = v] : v \in AttrValues(f)} :
                                  c \in prev, f \in CapsuleFields}

Capsules == Deviants(MaxDefects)

(* --------------------------------------------------- _validate_capsule *)
Raise(e, d) == [exc |-> e, detail |-> d]

Returns == [exc |-> "none", detail |-> "none"]

IsCallable(a) == a.kind \in {"function", "callable"}

(* check_arg_names with ignore = ["self"] *)
check_arg_names_ignoring_self(arg_names, correct, ignore) ==
    SelectSeq(arg_names, LAMBDA n : n # "self") = correct

(* check_arg_names(func, correct, ignore): arg_names is
   func.__code__.co_varnames[:co_argcount], ignore a set of names *)
check_arg_names(arg_names, correct, ignore) ==
    SelectSeq(arg_names, LAMBDA n : n \notin ignore) = correct

(* lines 245-256: the first backend, when capsule.backends is not None *)
ValidateBackends(c) ==
    IF c.backends.kind = "missing" THEN Raise("AttributeError", "backends")
    ELSE IF c.backends.kind = "None" THEN Returns
    ELSE IF c.backends.kind # "list" THEN Raise("TypeError", "backends")
    ELSE IF c.backends.items = <<>> THEN Raise("IndexError", "backends")
    ELSE LET backend == c.backends.items[1]
         IN  IF \E m \in BackendMethods : backend[m].kind = "missing"
             THEN Raise("AttributeError", "backend")
             ELSE IF /\ \A m \in BackendMethods : IsCallable(backend[m])
                     /\ backend.is_base_backend
                  THEN Returns
                  ELSE Raise("InvalidCapsuleError", "backend")

(* lines 258-267 *)
ValidateStreamState(c) ==
    IF c.stream_state.kind = "missing"
    THEN Raise("AttributeError", "stream_state")
    ELSE IF c.stream_state.kind = "class"
            /\ c.stream_state.cls = "BaseStreamState"
    THEN Returns
    ELSE IF c.stream_state.kind # "class"
    THEN Raise("AttributeError", "__bases__")
    ELSE IF "BaseStreamState" \in Bases(c.stream_state.cls) THEN Returns
    ELSE Raise("InvalidCapsuleError", "stream_state")

(* the encoder clause without the look into options *)
EncoderUnchecked(c) ==
    IF c.capability.kind = "missing" THEN Raise("AttributeError", "capability")
    ELSE IF c.capability.kind # "Capability"
    THEN Raise("AttributeError", "encoded")
    ELSE Returns

(* lines 269-275; options is a dict when this is reached *)
ValidateEncoder(c) ==
    IF c.capability.kind = "missing" THEN Raise("AttributeError", "capability")
    ELSE IF c.capability.kind # "Capability"
    THEN Raise("AttributeError", "encoded")
    ELSE IF c.capability.encoded
            /\ "recognition_threshold" \notin c.options.keys
    THEN Raise("InvalidCapsuleError", "recognition_threshold")
    ELSE Returns

(* lines 212-217: the attributes read after the name *)
ClassAttributes ==
    {"backend_loader", "version", "input_type", "output_type", "options"}

(* lines 197-242: the name, the class attributes, the leftover attributes
   and the loader's arguments, in the order the code reads them *)
ValidateAttributes(c) ==
    IF c.name.kind = "missing" THEN Raise("AttributeError", "name")
    ELSE IF c.name.kind # "str" THEN Raise("TypeError", "name")
    ELSE IF ~NameMatch(c.name.chars) THEN Raise("InvalidCapsuleError", "name")
    ELSE IF \E f \in ClassAttributes : c[f].kind = "missing"
    THEN Raise("AttributeError", "attribute")
    ELSE IF ~(/\ IsCallable(c.backend_loader)
              /\ c.version.kind = "int"
              /\ c.input_type.kind = "NodeDescription"
              /\ c.output_type.kind = "NodeDescription"
              /\ c.options.kind = "dict")
    THEN Raise("InvalidCapsuleError", "assertions")
    ELSE IF c.backend_config.kind # "missing"
    THEN Raise("InvalidCapsuleError", "backend_config")
    ELSE IF c.backend_loader.kind # "function"
    THEN Raise("AttributeError", "__code__")
    ELSE IF ~check_arg_names(c.backend_loader.args,
                             <<"capsule_files", "device">>, {})
    THEN Raise("InvalidCapsuleError", "backend_loader")
    ELSE Returns

(* the body of the try block: the first check that raises ends it *)
ValidateBody(c) ==
    LET a == ValidateAttributes(c)
        b == ValidateBackends(c)
        s == ValidateStreamState(c)
    IN  IF a.exc # "none" THEN a
        ELSE IF b.exc # "none" THEN b
        ELSE IF s.exc # "none" THEN s
        ELSE ValidateEncoder(c)

(* the except clauses, lines 276-285: each builds its InvalidCapsuleError
   from capsule.name, which raises AttributeError when the name is missing *)
validate_capsule(c) ==
    LET r == ValidateBody(c)
    IN  IF r.exc \in {"none", "InvalidCapsuleError"} THEN r
        ELSE IF c.name.kind = "missing" THEN Raise("AttributeError", "name")
        ELSE IF r.exc = "AttributeError"
        THEN Raise("InvalidCapsuleError", "missing_attribute")
        ELSE Raise("InvalidCapsuleError", "unknown")

(* ------------------------------------------------------------ the state *)
VARIABLES
    meta_path,     \* sys.meta_path, the resolver list shared by all loads
    pc,            \* the next step of each load
    key,           \* the key argument: "none", "right" or "wrong"
    capsule_name,  \* capsule_module_name(data)
    capsule_module, \* the module object made for the capsule's code
    capsule_files, \* the capsule_files argument of the constructor
    archive,       \* the data argument, as the zip archive it holds
    entry_path,    \* sys.meta_path as the call found it
    archive_open,  \* the ZipFile of the with block is open
    loaded_files,  \* the loaded_files dict
    compat,        \* compatibility_version, once read
    version,       \* (major, minor), once parsed
    namespace,     \* names bound in capsule_module.__dict__
    pending,       \* the exception in flight while the finally block runs
    capsule,       \* new_capsule
    close_calls,   \* calls of new_capsule.close()
    steps,         \* the steps the load has taken, in order
    err,           \* the exception that reached the caller
    returned       \* the load returned new_capsule

vars == <<meta_path, pc, key, capsule_name, capsule_module, capsule_files,
          archive, entry_path, archive_open, loaded_files,
          compat, version, namespace, pending, capsule, close_calls, steps,
          err, returned>>

EntryNames == {CAPSULE_FILE_NAME, META_FILE_NAME, AuxFileName}

FileBytes == {"b0"}

(* a second content the auxiliary entry may have *)
AuxBytes == {"b1"}

(* the archives a call may be given: bytes that are no zip file, or a zip
   file with some of the entries *)
NotAZip == [zip_ok |-> FALSE, files |-> <<>>]

Archives ==
    {NotAZip} \cup UNION {{[zip_ok |-> TRUE, files |-> f] :
                               f \in {g \in [ns -> FileBytes \cup AuxBytes] :
                                         \A n \in ns : g[n] \in AuxBytes => n = AuxFileName}} :
                              ns \in SUBSET EntryNames}

FullArchive ==
    [zip_ok |-> TRUE, files |-> [n \in EntryNames |-> "b0"]]

Keys == {"none", "right", "wrong"}

(* what meta.conf holds: text that does not decode, does not parse, lacks the
   section or the key, or gives a compatibility version *)
Metas ==
    {[kind |-> k, value |-> <<>>] :
         k \in {"undecodable", "unparsable", "no_section", "no_key"}}
    \cup {[kind |-> "ok", value |-> v] : v \in VersionStrings}

(* what running capsule.py does: binds Capsule, binds nothing of that name,
   raises an Exception, or raises a BaseException such as SystemExit *)
EvalOutcomes == {"binds_Capsule", "binds_nothing", "Exception", "SystemExit"}

NoCapsule == [kind |-> "none"]

NoCompat == [read |-> FALSE, value |-> <<>>]

NoVersion == <<>>

NoName == <<>>

NoModule == 0

NotCalled == [called |-> FALSE, files |-> <<>>]

(* the finders CPython starts with; 0 marks a finder no load owns *)
HostFinders ==
    <<<<"BuiltinImporter", 0>>, <<"FrozenImporter", 0>>, <<"PathFinder", 0>>>>

ZipFinder(l) == <<"ZipFinder", l>>

(* sys.meta_path.append(finder) *)
AppendFinder(path, finder) == Append(path, finder)

(* sys.meta_path.insert(0, finder) *)
InsertFirst(path, finder) == <<finder>> \o path

(* sys.meta_path.insert(1, finder) *)
InsertFinder(path, finder) ==
    IF path = <<>> THEN <<finder>>
    ELSE <<Head(path)>> \o <<finder>> \o Tail(path)

(* the finally block left out *)
KeepFinder(path) == path

(* sys.meta_path.pop(0) *)
PopFirst(path) == Tail(path)

(* sys.meta_path.pop() *)
PopLast(path) == SubSeq(path, 1, Len(path) - 1)

(* sys.meta_path.pop(1), for a list of two entries or more *)
PopFinder(path) == <<path[1]>> \o SubSeq(path, 3, Len(path))

Init ==
    /\ \E n \in 1..MaxHostFinders : meta_path = SubSeq(HostFinders, 1, n)
    /\ pc = [l \in Loads |-> "idle"]
    /\ key = [l \in Loads |-> "none"]
    /\ capsule_name = [l \in Loads |-> NoName]
    /\ capsule_module = [l \in Loads |-> NoModule]
    /\ capsule_files = [l \in Loads |-> NotCalled]
    /\ archive = [l \in Loads |-> NotAZip]
    /\ entry_path = [l \in Loads |-> <<>>]
    /\ archive_open = [l \in Loads |-> FALSE]
    /\ loaded_files = [l \in Loads |-> <<>>]
    /\ compat = [l \in Loads |-> NoCompat]
    /\ version = [l \in Loads |-> NoVersion]
    /\ namespace = [l \in Loads |-> {}]
    /\ pending = [l \in Loads |-> "none"]
    /\ capsule = [l \in Loads |-> NoCapsule]
    /\ close_calls = [l \in Loads |-> 0]
    /\ steps = [l \in Loads |-> <<>>]
    /\ err = [l \in Loads |-> "none"]
    /\ returned = [l \in Loads |-> FALSE]

(* ------------------------------------------- load_capsule_from_bytes *)
(* an exception leaves the function; one raised inside the with block
   closes the archive on the way *)
Raises(l, e) ==
    /\ err' = [err EXCEPT ![l] = e]
    /\ pc' = [pc EXCEPT ![l] = "done"]
    /\ archive_open' = [archive_open EXCEPT ![l] = FALSE]

Took(l, step) == steps' = [steps EXCEPT ![l] = Append(@, step)]

(* the data argument: the archive's bytes, or their ciphertext when the
   caller holds a key *)
DataBytes(k, a) == [encrypted |-> k # "none", plain |-> a]

(* hashlib.sha256(data).hexdigest(): a function of the bytes alone, taken
   to be free of collisions *)
sha256(data) == <<"sha256", data.encrypted, data.plain>>

(* lines 288-291 *)
capsule_module_name(data) == <<"capsule_", sha256(data)>>

(* a registry keyed by module name, as sys.modules is: a second load of the
   same data is given the module of the first *)
ModuleFromRegistry(l, name) ==
    IF \E j \in Loads \ {l} : capsule_module[j] # NoModule /\ capsule_name[j] = name
    THEN capsule_module[CHOOSE j \in Loads \ {l} :
                            capsule_module[j] # NoModule /\ capsule_name[j] = name]
    ELSE l

(* line 109: ModuleType(capsule_name) makes a new module object, known here
   by the call that made it; the name plays no part in its identity *)
ModuleType(l, name) == l

(* the call: the caller chooses the key and the data *)
Begin(l, keys, archives) ==
    /\ pc[l] = "idle"
    /\ \E k \in keys, a \in archives :
          /\ key' = [key EXCEPT ![l] = k]
          /\ archive' = [archive EXCEPT ![l] = a]
          /\ capsule_name' = [capsule_name EXCEPT
                                 ![l] = capsule_module_name(DataBytes(k, a))]
          /\ pc' = [pc EXCEPT ![l] = IF k = "none" THEN "open" ELSE "decrypt"]
    /\ entry_path' = [entry_path EXCEPT ![l] = meta_path]
    /\ UNCHANGED <<meta_path, capsule_module, capsule_files, archive_open, loaded_files, compat, version,
                   namespace, pending, capsule, close_calls, steps, err,
                   returned>>

(* decrypt(key, data) of crypto_utils: fails on the wrong key *)
decrypt(k) == IF k = "wrong" THEN "DecryptError" ELSE "none"

(* a failed decrypt swallowed: the load goes on to open the data *)
DecryptRecover(l) ==
    /\ pc[l] = "decrypt"
    /\ Took(l, "decrypt")
    /\ pc' = [pc EXCEPT ![l] = "open"]
    /\ UNCHANGED <<err, archive_open>>
    /\ UNCHANGED <<meta_path, key, capsule_name, capsule_module,
                   capsule_files, archive, entry_path, loaded_files, compat,
                   version, namespace, pending, capsule, close_calls,
                   returned>>

(* lines 46-48 *)
Decrypt(l) ==
    /\ pc[l] = "decrypt"
    /\ Took(l, "decrypt")
    /\ IF decrypt(key[l]) # "none"
       THEN Raises(l, decrypt(key[l]))
       ELSE /\ pc' = [pc EXCEPT ![l] = "open"]
            /\ UNCHANGED <<err, archive_open>>
    /\ UNCHANGED <<meta_path, key, capsule_name, capsule_module,
                   capsule_files, archive, entry_path, loaded_files, compat,
                   version, namespace, pending, capsule, close_calls,
                   returned>>

(* lines 50-54: ZipFile(file_like, "r") *)
OpenArchive(l) ==
    /\ pc[l] = "open"
    /\ Took(l, "open")
    /\ IF ~archive[l].zip_ok
       THEN Raises(l, "BadZipFile")
       ELSE /\ archive_open' = [archive_open EXCEPT ![l] = TRUE]
            /\ pc' = [pc EXCEPT ![l] = "entries"]
            /\ UNCHANGED err
    /\ UNCHANGED <<meta_path, key, capsule_name, capsule_module,
                   capsule_files, archive, entry_path, loaded_files, compat,
                   version, namespace, pending, capsule, close_calls,
                   returned>>

(* the entry check without the test for meta.conf *)
MissingCodeOnly(names) ==
    IF CAPSULE_FILE_NAME \notin names THEN CAPSULE_FILE_NAME ELSE "none"

(* lines 55-61: the required entry that namelist() lacks, if any *)
MissingEntry(names) ==
    IF CAPSULE_FILE_NAME \notin names THEN CAPSULE_FILE_NAME
    ELSE IF META_FILE_NAME \notin names THEN META_FILE_NAME
    ELSE "none"

(* the entries decoded to text on the way into loaded_files *)
ReadDecoded(files) ==
    [n \in DOMAIN files \ {CAPSULE_FILE_NAME} |-> <<"str", files[n]>>]

(* lines 63-70: every entry but capsule.py goes into loaded_files *)
ReadFiles(files) ==
    [n \in DOMAIN files \ {CAPSULE_FILE_NAME} |-> files[n]]

ReadEntries(l) ==
    /\ pc[l] = "entries"
    /\ Took(l, "entries")
    /\ IF MissingEntry(DOMAIN archive[l].files) # "none"
       THEN /\ Raises(l, "InvalidCapsuleError")
            /\ UNCHANGED loaded_files
       ELSE /\ loaded_files' =
                  [loaded_files EXCEPT ![l] = ReadFiles(archive[l].files)]
            /\ pc' = [pc EXCEPT ![l] = "meta"]
            /\ UNCHANGED <<err, archive_open>>
    /\ UNCHANGED <<meta_path, key, capsule_name, capsule_module,
                   capsule_files, archive, entry_path, compat, version,
                   namespace, pending, capsule, close_calls, returned>>

(* lines 74-76: decode, read_string and the two lookups *)
MetaError(m) ==
    CASE m.kind = "undecodable" -> "UnicodeDecodeError"
      [] m.kind = "unparsable" -> "ParsingError"
      [] m.kind \in {"no_section", "no_key"} -> "KeyError"
      [] OTHER -> "none"

ParseMeta(l, metas) ==
    /\ pc[l] = "meta"
    /\ Took(l, "meta")
    /\ IF META_FILE_NAME \notin DOMAIN loaded_files[l]
       THEN /\ Raises(l, "KeyError")
            /\ UNCHANGED compat
       ELSE \E m \in metas :
               IF MetaError(m) # "none"
               THEN /\ Raises(l, MetaError(m))
                    /\ UNCHANGED compat
               ELSE /\ compat' = [compat EXCEPT
                                     ![l] = [read |-> TRUE, value |-> m.value]]
                    /\ pc' = [pc EXCEPT ![l] = "match"]
                    /\ UNCHANGED <<err, archive_open>>
    /\ UNCHANGED <<meta_path, key, capsule_name, capsule_module,
                   capsule_files, archive, entry_path, loaded_files, version,
                   namespace, pending, capsule, close_calls, returned>>

(* lines 78-91 *)
MatchVersion(l) ==
    /\ pc[l] = "match"
    /\ Took(l, "match")
    /\ LET match == MAJOR_MINOR_SEMVER_PATTERN(compat[l].value)
       IN  IF ~match.ok
           THEN /\ Raises(l, "InvalidCapsuleError")
                /\ UNCHANGED version
           ELSE /\ version' = [version EXCEPT
                                  ![l] = <<ToInt(match.g1), ToInt(match.g2)>>]
                /\ pc' = [pc EXCEPT ![l] = "gate"]
                /\ UNCHANGED <<err, archive_open>>
    /\ UNCHANGED <<meta_path, key, capsule_name, capsule_module,
                   capsule_files, archive, entry_path, loaded_files, compat,
                   namespace, pending, capsule, close_calls, returned>>

(* lines 92-106 *)
CheckVersion(l) ==
    /\ pc[l] = "gate"
    /\ Took(l, "gate")
    /\ LET gate == VersionGate(version[l][1], version[l][2])
       IN  IF gate # "accept"
           THEN Raises(l, gate)
           ELSE /\ pc' = [pc EXCEPT ![l] = "activate"]
                /\ UNCHANGED <<err, archive_open>>
    /\ UNCHANGED <<meta_path, key, capsule_name, capsule_module,
                   capsule_files, archive, entry_path, loaded_files, compat,
                   version, namespace, pending, capsule, close_calls,
                   returned>>

(* lines 109-113 *)
Activate(l) ==
    /\ pc[l] = "activate"
    /\ Took(l, "activate")
    /\ capsule_module' = [capsule_module EXCEPT
                             ![l] = ModuleType(l, capsule_name[l])]
    /\ meta_path' = InsertFinder(meta_path, ZipFinder(l))
    /\ pc' = [pc EXCEPT ![l] = "evaluate"]
    /\ UNCHANGED <<key, capsule_name, capsule_files,
                   archive, entry_path, archive_open, loaded_files,
                   compat, version, namespace, pending, capsule, close_calls,
                   err, returned>>

(* lines 115-123: compile and exec; the except clause wraps an Exception,
   a BaseException passes it *)
Evaluate(l, outcomes) ==
    /\ pc[l] = "evaluate"
    /\ Took(l, "evaluate")
    /\ \E o \in outcomes :
          /\ namespace' = [namespace EXCEPT
                 ![capsule_module[l]] =
                     IF o = "binds_Capsule" THEN @ \cup {"Capsule"} ELSE @]
          /\ pending' = [pending EXCEPT
                 ![l] = CASE o = "Exception" -> "InvalidCapsuleError"
                          [] o = "SystemExit" -> "SystemExit"
                          [] OTHER -> "none"]
    /\ pc' = [pc EXCEPT ![l] = "deactivate"]
    /\ UNCHANGED <<meta_path, key, capsule_name, capsule_module,
                   capsule_files, archive, entry_path, archive_open,
                   loaded_files, compat, version, capsule, close_calls, err,
                   returned>>

(* lines 124-126: the finally block, then the pending exception or the end
   of the with block *)
Deactivate(l) ==
    /\ pc[l] = "deactivate"
    /\ Took(l, "deactivate")
    /\ IF Len(meta_path) < 2
       THEN /\ Raises(l, "IndexError")
            /\ UNCHANGED meta_path
       ELSE /\ meta_path' = PopFinder(meta_path)
            /\ IF pending[l] # "none"
               THEN Raises(l, pending[l])
               ELSE /\ pc' = [pc EXCEPT ![l] = "instantiate"]
                    /\ archive_open' = [archive_open EXCEPT ![l] = FALSE]
                    /\ UNCHANGED err
    /\ pending' = [pending EXCEPT ![l] = "none"]
    /\ UNCHANGED <<key, capsule_name, capsule_module, capsule_files,
                   archive, entry_path, loaded_files, compat, version,
                   namespace, capsule, close_calls, returned>>

(* lines 129-131: capsule_module.Capsule(...); the constructor is the
   capsule's code and builds an object or raises (NoCapsule) *)
Instantiate(l, constructions) ==
    /\ pc[l] = "instantiate"
    /\ Took(l, "instantiate")
    /\ IF "Capsule" \notin namespace[capsule_module[l]]
       THEN /\ Raises(l, "AttributeError")
            /\ UNCHANGED <<capsule, capsule_files>>
       ELSE /\ capsule_files' = [capsule_files EXCEPT
                   ![l] = [called |-> TRUE, files |-> loaded_files[l]]]
            /\ \E c \in constructions :
                  IF c = NoCapsule
                  THEN /\ Raises(l, "Exception")
                       /\ UNCHANGED capsule
                  ELSE /\ capsule' = [capsule EXCEPT ![l] = c]
                       /\ pc' = [pc EXCEPT ![l] = "validate"]
                       /\ UNCHANGED <<err, archive_open>>
    /\ UNCHANGED <<meta_path, key, capsule_name, capsule_module,
                   archive, entry_path, loaded_files, compat,
                   version, namespace, pending, close_calls, returned>>

(* lines 133-139: only InvalidCapsuleError is caught *)
Validate(l) ==
    /\ pc[l] = "validate"
    /\ Took(l, "validate")
    /\ LET r == validate_capsule(capsule[l])
       IN  IF r.exc = "none"
           THEN /\ returned' = [returned EXCEPT ![l] = TRUE]
                /\ pc' = [pc EXCEPT ![l] = "done"]
                /\ UNCHANGED <<err, archive_open, pending>>
           ELSE IF r.exc = "InvalidCapsuleError"
           THEN /\ pending' = [pending EXCEPT ![l] = r.exc]
                /\ pc' = [pc EXCEPT ![l] = "close"]
                /\ UNCHANGED <<err, archive_open, returned>>
           ELSE /\ Raises(l, r.exc)
                /\ UNCHANGED <<pending, returned>>
    /\ UNCHANGED <<meta_path, key, capsule_name, capsule_module,
                   capsule_files, archive, entry_path, loaded_files, compat,
                   version, namespace, capsule, close_calls>>

CloseOutcomes == {"returns", "raises"}

(* close() called in the except clause and once more on the way out *)
CloseTwice(l, outcomes) ==
    /\ pc[l] = "close"
    /\ Took(l, "close")
    /\ close_calls' = [close_calls EXCEPT ![l] = @ + 2]
    /\ \E o \in outcomes :
          Raises(l, IF o = "raises" THEN "Exception" ELSE pending[l])
    /\ pending' = [pending EXCEPT ![l] = "none"]
    /\ UNCHANGED <<meta_path, key, capsule_name, capsule_module,
                   capsule_files, archive, entry_path, loaded_files, compat,
                   version, namespace, capsule, returned>>

(* lines 136-137: new_capsule.close() is the capsule's code *)
Close(l, outcomes) ==
    /\ pc[l] = "close"
    /\ Took(l, "close")
    /\ close_calls' = [close_calls EXCEPT ![l] = @ + 1]
    /\ \E o \in outcomes :
          Raises(l, IF o = "raises" THEN "Exception" ELSE pending[l])
    /\ pending' = [pending EXCEPT ![l] = "none"]
    /\ UNCHANGED <<meta_path, key, capsule_name, capsule_module,
                   capsule_files, archive, entry_path, loaded_files, compat,
                   version, namespace, capsule, returned>>

(* the caller has taken the result; the load's locals are gone *)
Finish(l) ==
    /\ pc[l] = "done"
    /\ pc' = [pc EXCEPT ![l] = "idle"]
    /\ key' = [key EXCEPT ![l] = "none"]
    /\ capsule_name' = [capsule_name EXCEPT ![l] = NoName]
    /\ capsule_module' = [capsule_module EXCEPT ![l] = NoModule]
    /\ capsule_files' = [capsule_files EXCEPT ![l] = NotCalled]
    /\ archive' = [archive EXCEPT ![l] = NotAZip]
    /\ entry_path' = [entry_path EXCEPT ![l] = <<>>]
    /\ archive_open' = [archive_open EXCEPT ![l] = FALSE]
    /\ loaded_files' = [loaded_files EXCEPT ![l] = <<>>]
    /\ compat' = [compat EXCEPT ![l] = NoCompat]
    /\ version' = [version EXCEPT ![l] = NoVersion]
    /\ namespace' = [namespace EXCEPT ![l] = {}]
    /\ pending' = [pending EXCEPT ![l] = "none"]
    /\ capsule' = [capsule EXCEPT ![l] = NoCapsule]
    /\ close_calls' = [close_calls EXCEPT ![l] = 0]
    /\ steps' = [steps EXCEPT ![l] = <<>>]
    /\ err' = [err EXCEPT ![l] = "none"]
    /\ returned' = [returned EXCEPT ![l] = FALSE]
    /\ UNCHANGED meta_path

(* the steps of a call, its inputs drawn from the given sets *)
load_capsule_from_bytes(l, metas, evals, constructions, closes) ==
    \/ Decrypt(l)
    \/ OpenArchive(l)
    \/ ReadEntries(l)
    \/ ParseMeta(l, metas)
    \/ MatchVersion(l)
    \/ CheckVersion(l)
    \/ Activate(l)
    \/ Evaluate(l, evals)
    \/ Deactivate(l)
    \/ Instantiate(l, constructions)
    \/ Validate(l)
    \/ Close(l, closes)

(* ------------------------------------------------- loads one at a time *)
(* a call begins only when no other load is in flight *)
BeginAlone(l, keys, archives) ==
    /\ \A j \in Loads \ {l} : pc[j] = "idle"
    /\ Begin(l, keys, archives)

NoNameCapsule == [GoodCapsule EXCEPT !.name = Attr("missing")]

BadNameCapsule ==
    [GoodCapsule EXCEPT !.name = [kind |-> "str", chars |-> <<"-">>]]

(* every key, archive, meta.conf and evaluation outcome of the bounded sets,
   with a capsule object that passes validation, one that fails it and one
   without a name *)
SerialConstructions ==
    {GoodCapsule, BadNameCapsule, NoNameCapsule, NoCapsule}

Next ==
    \E l \in Loads :
        \/ BeginAlone(l, Keys, Archives)
        \/ load_capsule_from_bytes(l, Metas, EvalOutcomes,
               SerialConstructions,
               CloseOutcomes)
        \/ Finish(l)

Spec == Init /\ [][Next]_vars

(* an encrypted, well-formed archive of a compatible version, with every
   capsule object of the bounded set *)
CompatibleMeta == [kind |-> "ok", value |-> <<"0", ".", "2">>]

NextCapsules ==
    \E l \in Loads :
        \/ BeginAlone(l, {"right"}, {FullArchive})
        \/ load_capsule_from_bytes(l, {CompatibleMeta}, {"binds_Capsule"},
               Capsules, CloseOutcomes)
        \/ Finish(l)

SpecCapsules == Init /\ [][NextCapsules]_vars

(* --------------------------------------------------- concurrent loads *)
(* each load runs once, on a capsule of a small set, and any two loads may
   interleave step by step *)
ConcurrentKeys == {"none", "wrong"}

ConcurrentMetas == {CompatibleMeta}

ConcurrentEvals == {"binds_Capsule", "Exception"}

ConcurrentConstructions == {GoodCapsule, BadNameCapsule}

NextConcurrent ==
    \E l \in Loads :
        \/ Begin(l, ConcurrentKeys, {FullArchive})
        \/ load_capsule_from_bytes(l, ConcurrentMetas, ConcurrentEvals,
               ConcurrentConstructions, {"returns"})

SpecConcurrent == Init /\ [][NextConcurrent]_vars

(* ============================================================ claims *)
StepsOf(l) == {steps[l][i] : i \in DOMAIN steps[l]}

ReportedErrors == {"InvalidCapsuleError", "IncompatibleCapsuleError"}

(* a string of the form digits '.' digits, and the numbers it names *)
IsMajorMinor(s) ==
    \E i \in 2..(Len(s) - 1) :
        /\ s[i] = "."
        /\ \A j \in (1..Len(s)) \ {i} : s[j] \in Digits

DotOf(s) == CHOOSE i \in 1..Len(s) : s[i] = "."

RECURSIVE Decimal(_)
Decimal(s) ==
    IF s = <<>> THEN 0
    ELSE DigitVal(Head(s)) * 10 ^ (Len(s) - 1) + Decimal(Tail(s))

MajorOf(s) == Decimal(SubSeq(s, 1, DotOf(s) - 1))

MinorOf(s) == Decimal(SubSeq(s, DotOf(s) + 1, Len(s)))

ExecutorSteps ==
    {"activate", "evaluate", "deactivate", "instantiate", "validate", "close"}

(* C1: for every well-formed compatibility string major.minor that a load
   has put through the version gate: a major other than 0 ends the load in
   IncompatibleCapsuleError whatever the minor; major 0 with minor <= 2 is
   accepted and the load goes on to the executor stage; major 0 with
   minor > 2 ends the load in IncompatibleCapsuleError. *)
C1_VersionDecisionTable ==
    \A l \in Loads :
        (compat[l].read /\ IsMajorMinor(compat[l].value)
         /\ "match" \in StepsOf(l)) =>
            /\ pc[l] = "gate" \/ "gate" \in StepsOf(l)
            /\ "gate" \in StepsOf(l) =>
                 IF MajorOf(compat[l].value) = 0
                    /\ MinorOf(compat[l].value) <= 2
                 THEN /\ err[l] # "IncompatibleCapsuleError"
                      /\ pc[l] = "activate" \/ "activate" \in StepsOf(l)
                 ELSE /\ pc[l] = "done"
                      /\ err[l] = "IncompatibleCapsuleError"
                      /\ StepsOf(l) \cap ExecutorSteps = {}

(* a load has accepted the version 0.02 and stands before the executor *)
C1_Witness ==
    \E l \in Loads :
        /\ compat[l].value = <<"0", ".", "0", "2">>
        /\ pc[l] = "activate"
        /\ err[l] = "none"

(* C2: a load that constructed a capsule object and ended in an error has
   called the object's close(). *)
C2_ClosedBeforeError ==
    \A l \in Loads :
        (pc[l] = "done" /\ capsule[l] # NoCapsule /\ err[l] # "none") =>
            close_calls[l] >= 1

(* C3: a load that fails after decryption fails with InvalidCapsuleError or
   IncompatibleCapsuleError. *)
C3_OnlyReportedErrors ==
    \A l \in Loads :
        (err[l] # "none" /\ "open" \in StepsOf(l)) =>
            err[l] \in ReportedErrors

(* C4: with loads one at a time, the load's resolver is on the resolver list
   at index 1 while the capsule's code is evaluated, and when the load has
   returned or raised the list is what it was when the call began. *)
C4_ResolverScoped ==
    \A l \in Loads :
        /\ pc[l] = "evaluate" =>
              /\ Len(meta_path) = Len(entry_path[l]) + 1
              /\ meta_path[2] = ZipFinder(l)
        /\ pc[l] = "done" => meta_path = entry_path[l]

(* a load whose evaluation raised has ended, the list restored *)
C4_Witness ==
    \E l \in Loads :
        /\ pc[l] = "done"
        /\ steps[l][Len(steps[l])] = "deactivate"
        /\ err[l] = "InvalidCapsuleError"
        /\ meta_path = entry_path[l]

(* C5: with concurrent loads a load can be evaluating its code while its own
   resolver is off the list and the resolver at index 1 is another load's;
   this happens only when another load has activated or deactivated a
   resolver. *)
C5_MisresolutionByInterference ==
    \A l \in Loads :
        pc[l] = "evaluate" =>
            /\ meta_path[2] # ZipFinder(l) =>
                  \E j \in Loads \ {l} : "activate" \in StepsOf(j)
            /\ (\A i \in DOMAIN meta_path : meta_path[i] # ZipFinder(l)) =>
                  \E j \in Loads \ {l} : "deactivate" \in StepsOf(j)

(* a load evaluates with its resolver gone and another load's at index 1 *)
C5_Witness ==
    \E l \in Loads :
        /\ pc[l] = "evaluate"
        /\ \A i \in DOMAIN meta_path : meta_path[i] # ZipFinder(l)
        /\ \E j \in Loads \ {l} : meta_path[2] = ZipFinder(j)

StepOrder ==
    <<"open", "entries", "meta", "match", "gate", "activate", "evaluate",
      "deactivate", "instantiate", "validate", "close">>

(* C6: the steps of a load are an initial part of the fixed order (after the
   optional decryption), a load that has failed takes no further step and
   returns nothing, and a load whose version string is malformed or
   incompatible has activated no resolver, evaluated no code, built no
   capsule object, validated nothing and closed nothing. *)
C6_StagesInSequence ==
    \A l \in Loads :
        LET taken == IF steps[l] # <<>> /\ Head(steps[l]) = "decrypt"
                     THEN Tail(steps[l]) ELSE steps[l]
        IN  /\ Len(taken) <= Len(StepOrder)
            /\ taken = SubSeq(StepOrder, 1, Len(taken))
            /\ err[l] # "none" => pc[l] = "done" /\ ~returned[l]
            /\ (/\ compat[l].read
                /\ "gate" \in StepsOf(l) \/ pc[l] = "done"
                /\ \/ ~IsMajorMinor(compat[l].value)
                   \/ MajorOf(compat[l].value) # 0
                   \/ MinorOf(compat[l].value) > 2) =>
                  /\ StepsOf(l) \cap ExecutorSteps = {}
                  /\ pc[l] = "done"
                  /\ capsule[l] = NoCapsule
                  /\ namespace[l] = {}
                  /\ close_calls[l] = 0
                  /\ meta_path = entry_path[l]

(* a load of major version 3 has ended at the gate *)
C6_Witness ==
    \E l \in Loads :
        /\ compat[l].value = <<"3", ".", "0">>
        /\ pc[l] = "done"
        /\ steps[l][Len(steps[l])] = "gate"

(* C7: a load of an archive without capsule.py or without meta.conf ends in
   InvalidCapsuleError with no resolver activated and no code evaluated. *)
C7_MissingEntryInvalid ==
    \A l \in Loads :
        (/\ "entries" \in StepsOf(l)
         /\ \/ CAPSULE_FILE_NAME \notin DOMAIN archive[l].files
            \/ META_FILE_NAME \notin DOMAIN archive[l].files) =>
            /\ pc[l] = "done"
            /\ err[l] = "InvalidCapsuleError"
            /\ StepsOf(l) \cap ExecutorSteps = {}
            /\ meta_path = entry_path[l]

(* an archive with capsule.py and without meta.conf has been rejected *)
C7_Witness ==
    \E l \in Loads :
        /\ CAPSULE_FILE_NAME \in DOMAIN archive[l].files
        /\ META_FILE_NAME \notin DOMAIN archive[l].files
        /\ err[l] = "InvalidCapsuleError"

(* C8: a load whose compatibility string is not digits '.' digits ends in
   InvalidCapsuleError once the string is matched: never in
   IncompatibleCapsuleError, and no version is taken from it. *)
C8_MalformedVersionInvalid ==
    \A l \in Loads :
        (/\ compat[l].read
         /\ ~IsMajorMinor(compat[l].value)
         /\ "match" \in StepsOf(l)) =>
            /\ pc[l] = "done"
            /\ err[l] = "InvalidCapsuleError"
            /\ version[l] = NoVersion
            /\ "gate" \notin StepsOf(l)

(* the string 0.2a has been rejected *)
C8_Witness ==
    \E l \in Loads :
        /\ compat[l].value = <<"0", ".", "2", "a">>
        /\ err[l] = "InvalidCapsuleError"

ExpectedAttributes == CapsuleFields \ {"backend_config"}

MissingAttribute(c) == \E f \in ExpectedAttributes : c[f].kind = "missing"

(* C9: validation of a capsule object either returns, and then the object
   misses no expected attribute, or raises InvalidCapsuleError, which the
   load catches and answers with close(). *)
C9_ValidationRaisesOnlyInvalid ==
    \A l \in Loads :
        "validate" \in StepsOf(l) =>
            \/ returned[l] /\ ~MissingAttribute(capsule[l])
            \/ pc[l] = "close"
            \/ "close" \in StepsOf(l)

RECURSIVE Ancestors(_)
Ancestors(c) == Bases(c) \cup UNION {Ancestors(b) : b \in Bases(c)}

(* the seven structural clauses, as the specification states them *)
AllClauses(c) ==
    /\ c.name.kind = "str"
    /\ c.name.chars # <<>>
    /\ \A i \in DOMAIN c.name.chars : c.name.chars[i] \in AsciiWord
    /\ c.version.kind = "int"
    /\ c.input_type.kind = "NodeDescription"
    /\ c.output_type.kind = "NodeDescription"
    /\ c.options.kind = "dict"
    /\ c.backend_loader.kind \in {"function", "callable"}
    /\ c.backend_config.kind = "missing"
    /\ c.backend_loader.kind = "function"
    /\ c.backend_loader.args = <<"capsule_files", "device">>
    /\ (c.backends.kind = "list" /\ c.backends.items # <<>>) =>
          /\ \A m \in BackendMethods : c.backends.items[1][m].kind = "callable"
          /\ c.backends.items[1].is_base_backend
    /\ c.stream_state.kind = "class"
    /\ \/ c.stream_state.cls = "BaseStreamState"
       \/ "BaseStreamState" \in Ancestors(c.stream_state.cls)
    /\ (c.capability.kind = "Capability" /\ c.capability.encoded) =>
          "recognition_threshold" \in c.options.keys

(* C10: a load returns a capsule object only if all seven clauses hold for
   it, and a load that built an object violating a clause ends in
   InvalidCapsuleError. *)
C10_NeverPartiallyValid ==
    \A l \in Loads :
        /\ returned[l] => AllClauses(capsule[l])
        /\ (pc[l] = "done" /\ capsule[l] # NoCapsule
            /\ ~AllClauses(capsule[l])) => err[l] = "InvalidCapsuleError"


(* ------------------------------------------------ validation clauses *)
(* validation of the load's capsule has ended, by a return or by
   InvalidCapsuleError *)
Accepted(l) == returned[l]

Rejected(l) == pc[l] = "close" \/ "close" \in StepsOf(l)

(* the capsule passes every clause but, possibly, the one on attribute f *)
OtherClausesHold(c, f) ==
    [c EXCEPT ![f] = GoodCapsule[f]] = GoodCapsule

IsStreamStateSubtype(c) ==
    /\ c.stream_state.kind = "class"
    /\ \/ c.stream_state.cls = "BaseStreamState"
       \/ "BaseStreamState" \in Ancestors(c.stream_state.cls)

(* C11: a capsule that satisfies every other clause is accepted when its
   stream_state is BaseStreamState, a direct subclass or an indirect
   subclass of it, and is rejected with InvalidCapsuleError when it is a
   class outside that relation. *)
C11_StreamStateSubtypes ==
    \A l \in Loads :
        ( /\ "validate" \in StepsOf(l)
          /\ OtherClausesHold(capsule[l], "stream_state")
          /\ capsule[l].stream_state.kind = "class" )
        => IF IsStreamStateSubtype(capsule[l])
           THEN Accepted(l)
           ELSE Rejected(l)

LoaderArgs == <<"capsule_files", "device">>

StripSelf(args) ==
    IF args # <<>> /\ Head(args) = "self" THEN Tail(args) ELSE args

HasLoaderFunction(l) ==
    /\ "validate" \in StepsOf(l)
    /\ OtherClausesHold(capsule[l], "backend_loader")
    /\ capsule[l].backend_loader.kind = "function"

(* C12 as stated: backend_loader passes exactly when its positional
   parameter names, a leading self left aside, are capsule_files, device in
   that order; any other names, order or count is rejected with
   InvalidCapsuleError. *)
C12_LoaderIgnoringSelf ==
    \A l \in Loads :
        HasLoaderFunction(l)
        => IF StripSelf(capsule[l].backend_loader.args) = LoaderArgs
           THEN Accepted(l)
           ELSE Rejected(l)

(* C12 amended: backend_loader passes exactly when its positional parameter
   names are capsule_files, device in that order with nothing before them;
   no name is left aside, so a loader declared with a leading self is
   rejected with InvalidCapsuleError like any other count, order or name. *)
C12_LoaderExactNames ==
    \A l \in Loads :
        HasLoaderFunction(l)
        => IF capsule[l].backend_loader.args = LoaderArgs
           THEN Accepted(l)
           ELSE Rejected(l)

C12_Witness ==
    \E l \in Loads :
        /\ HasLoaderFunction(l)
        /\ capsule[l].backend_loader.args = <<"self">> \o LoaderArgs
        /\ pc[l] = "done"
        /\ err[l] = "InvalidCapsuleError"

(* the capsule passes every clause but, possibly, the encoder one, and has
   an options dictionary and a capability to look at *)
EncoderCase(l) ==
    /\ "validate" \in StepsOf(l)
    /\ [capsule[l] EXCEPT !.options = GoodCapsule.options,
                          !.capability = GoodCapsule.capability] = GoodCapsule
    /\ capsule[l].options.kind = "dict"
    /\ capsule[l].capability.kind = "Capability"

(* C13: for a capsule that satisfies every other clause, encoded true
   without a recognition_threshold key in options is rejected with
   InvalidCapsuleError; with that key it is accepted; encoded false is
   accepted with or without the key. *)
C13_EncoderNeedsThreshold ==
    \A l \in Loads :
        EncoderCase(l)
        => IF /\ capsule[l].capability.encoded
              /\ "recognition_threshold" \notin capsule[l].options.keys
           THEN Rejected(l) /\ ~Accepted(l)
           ELSE Accepted(l) /\ ~Rejected(l)

C13_Witness ==
    \E l \in Loads :
        /\ EncoderCase(l)
        /\ capsule[l].capability.encoded
        /\ capsule[l].options.keys = {}
        /\ pc[l] = "done"
        /\ err[l] = "InvalidCapsuleError"

(* ------------------------------------------------- names and namespaces *)
Begun(l) == capsule_name[l] # NoName

SameData(l, j) ==
    DataBytes(key[l], archive[l]) = DataBytes(key[j], archive[j])

HasModule(l) == capsule_module[l] # NoModule

(* C14: two loads of the same bytes compute the same name
   capsule_<sha256>, yet each evaluates in a module of its own and builds
   its own capsule: the two module objects are distinct, a binding seen in
   a load's namespace was made by that load's own evaluation, and a
   returned capsule comes from that load's own constructor call. *)
C14_SameNameOwnNamespace ==
    \A l \in Loads :
        /\ HasModule(l) /\ "Capsule" \in namespace[capsule_module[l]]
           => "evaluate" \in StepsOf(l)
        /\ returned[l] => capsule_files[l].called /\ capsule[l] # NoCapsule
        /\ \A j \in Loads \ {l} :
              (Begun(l) /\ Begun(j) /\ SameData(l, j))
              => /\ capsule_name[l] = capsule_name[j]
                 /\ (HasModule(l) /\ HasModule(j))
                    => capsule_module[l] # capsule_module[j]

(* two loads of the same bytes, one returned and the other evaluating, with
   the first one's binding in place and none yet in the second's module *)
C14_Witness ==
    \E l \in Loads, j \in Loads :
        /\ l # j
        /\ Begun(l) /\ Begun(j) /\ SameData(l, j)
        /\ capsule_name[l] = capsule_name[j]
        /\ returned[l]
        /\ pc[j] = "evaluate"
        /\ "Capsule" \in namespace[capsule_module[l]]
        /\ "Capsule" \notin namespace[capsule_module[j]]

(* ------------------------------------------------------------ decryption *)
(* C15: when a key is given, decrypt is the first step of the load, before
   the archive is opened; when it fails the load ends there with that
   error: decrypt is not retried, the archive is never opened, no entry is
   read, no version parsed or gated, no module made or code evaluated, no
   capsule built, and the resolver list is as the load found it. *)
C15_DecryptFirstAndFatal ==
    \A l \in Loads :
        key[l] # "none"
        => /\ steps[l] # <<>> => Head(steps[l]) = "decrypt"
           /\ \A i \in DOMAIN steps[l] : steps[l][i] = "decrypt" => i = 1
           /\ (key[l] = "wrong" /\ steps[l] # <<>>)
              => /\ steps[l] = <<"decrypt">>
                 /\ pc[l] = "done"
                 /\ err[l] = "DecryptError"
                 /\ ~returned[l]
                 /\ ~archive_open[l]
                 /\ loaded_files[l] = <<>>
                 /\ compat[l] = NoCompat
                 /\ version[l] = NoVersion
                 /\ ~HasModule(l)
                 /\ capsule[l] = NoCapsule
                 /\ meta_path = entry_path[l]

C15_Witness ==
    \E l \in Loads :
        /\ key[l] = "wrong"
        /\ archive[l] = FullArchive
        /\ steps[l] = <<"decrypt">>
        /\ pc[l] = "done"
        /\ err[l] = "DecryptError"

(* --------------------------------------------------- the capsule's files *)
Verbatim(names, files) == [n \in names |-> files[n]]

(* C16 as stated: the mapping handed to the constructor holds exactly the
   entries that are neither capsule.py nor meta.conf, each under its path
   in the archive with its original bytes. *)
C16_OnlyAuxiliaryEntries ==
    \A l \in Loads :
        capsule_files[l].called
        => capsule_files[l].files =
               Verbatim(DOMAIN archive[l].files
                            \ {CAPSULE_FILE_NAME, META_FILE_NAME},
                        archive[l].files)

(* C16 amended: the mapping handed to the constructor holds exactly the
   entries other than capsule.py, meta.conf among them, each under its
   path in the archive with its original bytes. *)
C16_AllButCodeEntry ==
    \A l \in Loads :
        capsule_files[l].called
        => capsule_files[l].files =
               Verbatim(DOMAIN archive[l].files \ {CAPSULE_FILE_NAME},
                        archive[l].files)

C16_Witness ==
    \E l \in Loads :
        /\ capsule_files[l].called
        /\ DOMAIN archive[l].files = EntryNames
        /\ archive[l].files[AuxFileName] \in AuxBytes
        /\ DOMAIN capsule_files[l].files = {META_FILE_NAME, AuxFileName}
        /\ capsule_files[l].files[AuxFileName] = archive[l].files[AuxFileName]

(* ------------------------------------------------------ the resolver list *)
IsZipFinder(f) == f[1] = "ZipFinder"

(* C17: while loads run one at a time, in every state in which a load is
   evaluating its code its own ZipFinder is the second entry of
   sys.meta_path (index 1) and no other ZipFinder is in the list. *)
C17_OwnResolverAtIndexOne ==
    \A l \in Loads :
        pc[l] = "evaluate"
        => /\ Len(meta_path) >= 2
           /\ meta_path[2] = ZipFinder(l)
           /\ \A i \in DOMAIN meta_path :
                 IsZipFinder(meta_path[i]) => i = 2

(* a load evaluating in a host with several finders, after an earlier load
   by the other caller has come and gone *)
C17_Witness ==
    \E l \in Loads :
        /\ pc[l] = "evaluate"
        /\ Len(meta_path) = MaxHostFinders + 1
        /\ meta_path[2] = ZipFinder(l)

HostPart(path) == SelectSeq(path, LAMBDA f : ~IsZipFinder(f))

AllFinished == \A l \in Loads : pc[l] \in {"idle", "done"}

(* C18: however the inserts at index 1 and the pops of index 1 of any
   number of loads interleave, starting from a list with at least one
   entry, the entries that were there before are never removed or
   reordered, every pop removes a ZipFinder, and once every load has
   finished the list is what it was at the start. *)
C18_HostEntriesKept ==
    [][ /\ HostPart(meta_path') = HostPart(meta_path)
        /\ Len(meta_path') < Len(meta_path) => IsZipFinder(meta_path[2])
        /\ AllFinished' => meta_path' = HostPart(meta_path)
      ]_vars

(* every load has finished, and one of them began while another's ZipFinder
   was in the list *)
C18_Witness ==
    /\ \A l \in Loads : pc[l] = "done" /\ "deactivate" \in StepsOf(l)
    /\ \E l \in Loads, j \in Loads :
          /\ l # j
          /\ \E i \in DOMAIN entry_path[l] : entry_path[l][i] = ZipFinder(j)
    /\ meta_path = SubSeq(HostFinders, 1, MaxHostFinders)

InList(finder) == \E i \in DOMAIN meta_path : meta_path[i] = finder

(* the load is between its insert and its pop *)
InWindow(l) == pc[l] \in {"evaluate", "deactivate"}

(* the load is building or validating its capsule *)
Constructing(l) == pc[l] \in {"instantiate", "validate", "close"}

(* C19 as stated: in every load the capsule is built only after the load's
   own ZipFinder has left sys.meta_path and the archive has been closed;
   the ZipFinder is in the list only during evaluation, never during
   construction or validation. *)
C19_ResolverGoneBeforeConstruction ==
    \A l \in Loads :
        /\ Constructing(l) => ~InList(ZipFinder(l)) /\ ~archive_open[l]
        /\ InList(ZipFinder(l)) => InWindow(l)

(* C19 amended: in every load the capsule is built only after the load's
   pop(1) and after the archive has been closed; while no other load is
   between its insert and its pop, the entry popped was the load's own
   ZipFinder, so that finder is in the list only during evaluation, never
   during construction or validation. *)
C19_PoppedBeforeConstruction ==
    \A l \in Loads :
        /\ Constructing(l)
           => /\ ~archive_open[l]
              /\ \E i \in DOMAIN steps[l] :
                    /\ steps[l][i] = "deactivate"
                    /\ \A k \in DOMAIN steps[l] :
                          steps[l][k] = "instantiate" => i < k
        /\ (\A j \in Loads \ {l} : ~InWindow(j))
           => /\ Constructing(l) => ~InList(ZipFinder(l))
              /\ InList(ZipFinder(l)) => InWindow(l)

(* a capsule being validated after another load has come and gone, its own
   ZipFinder popped and the list as the host had it *)
C19_Witness ==
    \E l \in Loads, j \in Loads :
        /\ l # j
        /\ pc[l] = "validate"
        /\ pc[j] = "done" /\ "deactivate" \in StepsOf(j)
        /\ ~InList(ZipFinder(l))
        /\ meta_path = SubSeq(HostFinders, 1, MaxHostFinders)

(* ----------------------------------------------------------------- close *)
(* C20: a load calls close() on its capsule at most once, and only after
   validation has failed: a capsule that is returned has not been closed by
   the load, and close() is not called when no capsule was built. *)
C20_CloseOnlyAfterFailedValidation ==
    \A l \in Loads :
        /\ close_calls[l] <= 1
        /\ returned[l] => close_calls[l] = 0
        /\ capsule[l] = NoCapsule => close_calls[l] = 0
        /\ close_calls[l] > 0
           => /\ "validate" \in StepsOf(l)
              /\ validate_capsule(capsule[l]).exc = "InvalidCapsuleError"
              /\ pc[l] = "done"
              /\ ~returned[l]

C20_Witness ==
    \E l \in Loads :
        /\ capsule[l] = BadNameCapsule
        /\ close_calls[l] = 1
        /\ pc[l] = "done"
        /\ err[l] = "InvalidCapsuleError"

====
